---- MODULE Spec2Model ----
(***************************************************************************)
(* Model of wav_to_pcap_converter.py: the RTP header packing of            *)
(* RTPPacket.build_header, the chunk/pad/sequence/timestamp loop and the   *)
(* capture write of convert_wav_to_pcap, the directory walk of             *)
(* batch_convert and the dispatch and exit status of main.                 *)
(*                                                                         *)
(* A path is a record [dir, name]: dir is a directory name ("" is the      *)
(* current directory) and name a sequence of name segments such as         *)
(* <<"a", ".wav">>; the empty name denotes the directory itself.  Audio    *)
(* bytes are held as [len, seed]: byte j (0-based) is AudioByte(a, j).     *)
(* The two 32-bit header fields exceed the checker's integers, so the      *)
(* timestamp and the SSRC are held as [hi, lo] with value hi * 65536 + lo  *)
(* (lo in 0..65535, hi unbounded as a Python int is).                      *)
(***************************************************************************)
EXTENDS Integers, Sequences, FiniteSets, TLC

----------------------------------------------------------------------------
(* Bounds of the exploration *)

MaxAudioLen == 4
MaxEntries == 2
LongChunks == 66000
LongStart == 65500

----------------------------------------------------------------------------
(* Program constants *)

DefaultPacketSize == 160
DefaultPayloadType == 0
DefaultSSRC == [hi |-> 43981, lo |-> 61185]    \* 0xABCDEF01
InitialSeq == 1
InitialTimestamp == 0
MaxSeq == 65535
Silence == 127
WavExt == ".wav"
PcapExt == ".pcap"

DefaultAddr == [src_ip |-> "210.245.0.142", dst_ip |-> "118.69.115.150",
                src_port |-> 18130, dst_port |-> 18130]
CliDefaultAddr == [src_ip |-> "192.168.1.1", dst_ip |-> "192.168.1.2",
                   src_port |-> 10000, dst_port |-> 20000]

----------------------------------------------------------------------------
(* Byte strings and struct.pack *)

Pow2(n) == 2 ^ n

RECURSIVE BitOr(_, _)
BitOr(a, b) ==
    IF a = 0 THEN b
    ELSE IF b = 0 THEN a
    ELSE (IF a % 2 = 1 \/ b % 2 = 1 THEN 1 ELSE 0) + 2 * BitOr(a \div 2, b \div 2)

ShiftLeft(a, n) == a * Pow2(n)

BigEndian(v, nbytes) ==
    [k \in 1..nbytes |-> (v \div Pow2(8 * (nbytes - k))) % 256]

Fits(v, nbytes) == v >= 0 /\ v < Pow2(8 * nbytes)

Wide(v) == [hi |-> v \div 65536, lo |-> v % 65536]
WideAdd(w, n) == [hi |-> w.hi + ((w.lo + n) \div 65536), lo |-> (w.lo + n) % 65536]
WideInt(w) == w.hi * 65536 + w.lo
Fits32(w) == w.hi >= 0 /\ w.hi < 65536
BigEndian32(w) == BigEndian(w.hi, 2) \o BigEndian(w.lo, 2)

StructError == <<-1>>

\* struct.pack("!BBHII", b0, b1, h, i1, i2): 12 bytes, or struct.error when
\* an argument is outside the range of its field.
Pack_BBHII(b0, b1, h, i1, i2) ==
    IF Fits(b0, 1) /\ Fits(b1, 1) /\ Fits(h, 2) /\ Fits32(i1) /\ Fits32(i2)
    THEN BigEndian(b0, 1) \o BigEndian(b1, 1) \o BigEndian(h, 2)
         \o BigEndian32(i1) \o BigEndian32(i2)
    ELSE StructError

----------------------------------------------------------------------------
(* RTPPacket *)

RTPPacket(payload_type, seq_num, timestamp) ==
    [version |-> 2, padding |-> 0, extension |-> 0, csrc_count |-> 0,
     marker |-> 0, payload_type |-> payload_type, seq_num |-> seq_num,
     timestamp |-> timestamp, ssrc |-> DefaultSSRC]

NoPacket == RTPPacket(0, -1, Wide(0))

build_header(self) ==
    LET first_byte == BitOr(BitOr(BitOr(ShiftLeft(self.version, 6),
                                        ShiftLeft(self.padding, 5)),
                                  ShiftLeft(self.extension, 4)),
                            self.csrc_count)
        second_byte == BitOr(ShiftLeft(self.marker, 7), self.payload_type)
    IN Pack_BBHII(first_byte, second_byte, self.seq_num, self.timestamp, self.ssrc)

----------------------------------------------------------------------------
(* Audio data, chunking and padding *)

AudioByte(a, j) == (a.seed + 50 * j + (j \div 3)) % 256

\* audio_data[lo : hi]
Slice(a, lo, hi) ==
    LET top == IF hi < a.len THEN hi ELSE a.len
        n == IF top > lo THEN top - lo ELSE 0
    IN [k \in 1..n |-> AudioByte(a, lo + k - 1)]

Repeat(b, n) == [k \in 1..n |-> b]

PadChunk_ZeroFill(chunk, packet_size) ==
    IF Len(chunk) < packet_size
    THEN chunk \o Repeat(0, packet_size - Len(chunk))
    ELSE chunk

PadChunk(chunk, packet_size) ==
    IF Len(chunk) < packet_size
    THEN LET padding_needed == packet_size - Len(chunk)
         IN chunk \o Repeat(Silence, padding_needed)
    ELSE chunk

NextSeqNum_WrapsToOne(seq_num) ==
    IF seq_num + 1 > MaxSeq THEN 1 ELSE seq_num + 1

NextSeqNum(seq_num) ==
    IF seq_num + 1 > MaxSeq THEN 0 ELSE seq_num + 1

NextTimestamp_FixedStep(timestamp, samples_per_packet) ==
    WideAdd(timestamp, DefaultPacketSize)

NextTimestamp(timestamp, samples_per_packet) == WideAdd(timestamp, samples_per_packet)

\* Ether() / IP(src, dst) / UDP(sport, dport) / Raw(load)
Frame(cfg, rtp_payload) ==
    [src_ip |-> cfg.src_ip, dst_ip |-> cfg.dst_ip,
     sport |-> cfg.src_port, dport |-> cfg.dst_port, load |-> rtp_payload]

----------------------------------------------------------------------------
(* Paths, names and the file system *)

Path(d, n) == [dir |-> d, name |-> n]

\* os.path.join(directory, filename)
Join(directory, filename) == Path(directory.dir, filename)

\* os.path.dirname(path); the result is falsy ('') for a bare file name
Dirname(path) == Path(path.dir, <<>>)

NoAudio == [len |-> 0, seed |-> 0]
WavFile(ch, a) == [kind |-> "wav", nchannels |-> ch, audio |-> a, records |-> <<>>]
CorruptFile == [kind |-> "corrupt", nchannels |-> 0, audio |-> NoAudio, records |-> <<>>]
Capture_DropsLast(frames) ==
    [kind |-> "pcap", nchannels |-> 0, audio |-> [len |-> 0, seed |-> 0],
     records |-> SubSeq(frames, 1, Len(frames) - 1)]

Capture(frames) == [kind |-> "pcap", nchannels |-> 0, audio |-> NoAudio, records |-> frames]
PartialCapture(frames) ==
    [kind |-> "partial", nchannels |-> 0, audio |-> NoAudio, records |-> frames]
OldCapture == Capture(<<Frame(DefaultAddr, <<1, 2, 3>>)>>)

WriteFile(fs, p, c) == [q \in DOMAIN fs \cup {p} |-> IF q = p THEN c ELSE fs[q]]

LowerSeg(seg) == IF seg = ".WAV" THEN ".wav" ELSE seg

\* filename.lower().endswith(".wav")
HasWavExt(filename) ==
    Len(filename) > 0 /\ LowerSeg(filename[Len(filename)]) = WavExt

\* file_pattern in filename
Contains(filename, file_pattern) ==
    \E k \in 0..(Len(filename) - Len(file_pattern)) :
        \A j \in 1..Len(file_pattern) : filename[k + j] = file_pattern[j]

\* filename.replace(".wav", ".pcap")
ReplaceExt(filename) ==
    [k \in 1..Len(filename) |-> IF filename[k] = WavExt THEN PcapExt ELSE filename[k]]

\* the tests of batch_convert's loop that let an entry through
Matches(filename, file_pattern) ==
    /\ HasWavExt(filename)
    /\ ~(file_pattern # <<>> /\ ~Contains(filename, file_pattern))

Msg(m, a, b) == [msg |-> m, a |-> a, b |-> b]

----------------------------------------------------------------------------
(* State *)

VARIABLES
    args,           \* parsed command line
    files,          \* file system: path -> content
    dirs,           \* existing directories
    pc,             \* control location
    stdout,         \* printed messages
    exit_status,    \* process exit status, -1 while running
    wav_file, pcap_file, cfg,       \* arguments of convert_wav_to_pcap
    audio_data, i, seq_num, timestamp, packets, rtp,   \* its locals
    result,         \* its return value
    listing,        \* the names os.listdir returned to batch_convert
    todo,           \* the names of listing the loop has not reached yet
    success_count, failed_count,    \* counters of batch_convert
    converted       \* names handed to convert_wav_to_pcap by batch_convert

envVars == <<args, files, dirs>>
convArgs == <<wav_file, pcap_file, cfg>>
loopVars == <<audio_data, i, seq_num, timestamp, packets, rtp>>
batchVars == <<listing, todo, success_count, failed_count, converted>>
vars == <<args, files, dirs, pc, stdout, exit_status, wav_file, pcap_file, cfg,
          audio_data, i, seq_num, timestamp, packets, rtp, result,
          listing, todo, success_count, failed_count, converted>>

IsDir(p) == p.name = <<>> /\ p.dir \in dirs
Exists(p) == IsDir(p) \/ p \in DOMAIN files
BatchMode == IsDir(args.input)

\* os.listdir(directory)
ListDir(directory) == {p.name : p \in {q \in DOMAIN files : q.dir = directory.dir}}

----------------------------------------------------------------------------
(* Inputs *)

CustomAddr == [src_ip |-> "10.0.0.1", dst_ip |-> "10.0.0.2",
               src_port |-> 5004, dst_port |-> 5006]
AddrChoices == {CliDefaultAddr, CustomAddr}
PacketSizes == {-1, 0, 1, 2, 3, DefaultPacketSize}
PayloadTypes == {-1, 0, 8, 127, 128, 255, 256}
Seeds == {0, 127}
Channels == {1, 2}
ScenarioLens == {8000, 8005}
Patterns == {<<>>, <<"a">>, <<".WAV">>}
EntryNames == {<<"a", ".wav">>, <<"b", ".WAV">>, <<"a", ".txt">>,
               <<"a", ".wav", ".wav">>, <<"a", ".pcap", ".wav">>}
BatchContents == {CorruptFile, WavFile(1, [len |-> 3, seed |-> 127]),
                  WavFile(2, [len |-> DefaultPacketSize + 5, seed |-> 0])}

AudioLens(packet_size) ==
    (0..MaxAudioLen) \cup (IF packet_size = DefaultPacketSize THEN ScenarioLens ELSE {})

Options(addr, payload_type, packet_size) ==
    [src_ip |-> addr.src_ip, dst_ip |-> addr.dst_ip, src_port |-> addr.src_port,
     dst_port |-> addr.dst_port, payload_type |-> payload_type,
     packet_size |-> packet_size]

\* the keyword defaults of convert_wav_to_pcap
DefaultOptions == Options(DefaultAddr, DefaultPayloadType, DefaultPacketSize)

Args(input, output, pattern, opts) ==
    [input |-> input, output |-> output, pattern |-> pattern,
     src_ip |-> opts.src_ip, dst_ip |-> opts.dst_ip, src_port |-> opts.src_port,
     dst_port |-> opts.dst_port, payload_type |-> opts.payload_type,
     packet_size |-> opts.packet_size]

SingleIn == Path("in", <<"a", ".wav">>)
SingleOutName == <<"a", ".pcap">>
EmptyFS == [q \in {} |-> CorruptFile]

Locals0 ==
    /\ pc = "main"
    /\ stdout = <<>>
    /\ exit_status = -1
    /\ wav_file = Path("", <<>>)
    /\ pcap_file = Path("", <<>>)
    /\ cfg = DefaultOptions
    /\ audio_data = NoAudio
    /\ i = 0
    /\ seq_num = 0
    /\ timestamp = Wide(0)
    /\ packets = <<>>
    /\ rtp = NoPacket
    /\ result = FALSE
    /\ listing = {}
    /\ todo = {}
    /\ success_count = 0
    /\ failed_count = 0
    /\ converted = <<>>

InitSingle ==
    \E P \in PacketSizes, pt \in PayloadTypes, addr \in AddrChoices,
       od \in {"", "out"}, odExists \in BOOLEAN, old \in BOOLEAN,
       inKind \in {"missing", "corrupt", "wav"} :
    \E ch \in Channels, sd \in Seeds, L \in AudioLens(P) :
        /\ (inKind # "wav") => (ch = 1 /\ sd = 0 /\ L = 0)
        /\ (od = "") => odExists
        /\ old => odExists
        /\ args = Args(SingleIn, Path(od, SingleOutName), <<>>, Options(addr, pt, P))
        /\ dirs = {"", "in"} \cup (IF odExists THEN {od} ELSE {})
        /\ LET f0 == IF inKind = "missing" THEN EmptyFS
                     ELSE WriteFile(EmptyFS, SingleIn,
                                    IF inKind = "corrupt" THEN CorruptFile
                                    ELSE WavFile(ch, [len |-> L, seed |-> sd]))
           IN files = IF old THEN WriteFile(f0, Path(od, SingleOutName), OldCapture)
                      ELSE f0

BatchOptions == {Options(CliDefaultAddr, DefaultPayloadType, DefaultPacketSize),
                 Options(CustomAddr, 8, 2)}

InitBatch ==
    \E names \in SUBSET EntryNames, pattern \in Patterns, opts \in BatchOptions,
       od \in {"in", "out"}, odExists \in BOOLEAN :
        /\ Cardinality(names) <= MaxEntries
        /\ (od = "in") => odExists
        /\ args = Args(Path("in", <<>>), Path(od, <<>>), pattern, opts)
        /\ dirs = {"", "in"} \cup (IF odExists THEN {od} ELSE {})
        /\ files \in [{Path("in", n) : n \in names} -> BatchContents]

Init == Locals0 /\ (InitSingle \/ InitBatch)

----------------------------------------------------------------------------
(* main *)

Emit(m) == stdout' = Append(stdout, m)

OptionsOf(a) == Options([src_ip |-> a.src_ip, dst_ip |-> a.dst_ip,
                         src_port |-> a.src_port, dst_port |-> a.dst_port],
                        a.payload_type, a.packet_size)

\* main, input is a directory: batch_convert(args.input, args.output, args.pattern)
MainBatch ==
    /\ pc = "main"
    /\ BatchMode
    /\ pc' = "batch_convert"
    /\ UNCHANGED <<envVars, stdout, exit_status, convArgs, loopVars, result, batchVars>>

\* main, input is not a directory: the parent of the output is created when
\* absent, then convert_wav_to_pcap is called with the command-line options
MainSingle ==
    /\ pc = "main"
    /\ ~BatchMode
    /\ LET output_dir == Dirname(args.output)
       IN dirs' = IF output_dir.dir # "" /\ ~Exists(output_dir)
                  THEN dirs \cup {output_dir.dir} ELSE dirs
    /\ wav_file' = args.input
    /\ pcap_file' = args.output
    /\ cfg' = OptionsOf(args)
    /\ pc' = "convert"
    /\ UNCHANGED <<args, files, stdout, exit_status, loopVars, result, batchVars>>

\* main, os.makedirs raises: the exception leaves main, the interpreter exits 1
MainMakedirsError ==
    /\ pc = "main"
    /\ ~BatchMode
    /\ LET output_dir == Dirname(args.output)
       IN output_dir.dir # "" /\ ~Exists(output_dir)
    /\ pc' = "exit"
    /\ exit_status' = 1
    /\ UNCHANGED <<envVars, stdout, convArgs, loopVars, result, batchVars>>

\* main after convert_wav_to_pcap returned
SingleExit ==
    /\ pc = "return"
    /\ ~BatchMode
    /\ IF result
       THEN Emit(Msg("Conversion completed successfully", 0, 0)) /\ exit_status' = 0
       ELSE Emit(Msg("Conversion failed", 0, 0)) /\ exit_status' = 1
    /\ pc' = "exit"
    /\ UNCHANGED <<envVars, convArgs, loopVars, result, batchVars>>

----------------------------------------------------------------------------
(* batch_convert *)

\* entry of batch_convert: the output directory is created when absent, the
\* counters are zeroed and the directory is listed
BatchEnter ==
    /\ pc = "batch_convert"
    /\ Exists(args.input)
    /\ IF ~Exists(args.output)
       THEN /\ dirs' = dirs \cup {args.output.dir}
            /\ Emit(Msg("Created output directory", 0, 0))
       ELSE UNCHANGED <<dirs, stdout>>
    /\ success_count' = 0
    /\ failed_count' = 0
    /\ listing' = ListDir(args.input)
    /\ todo' = ListDir(args.input)
    /\ pc' = "batch_loop"
    /\ UNCHANGED <<args, files, exit_status, convArgs, loopVars, result, converted>>

\* os.makedirs(output_dir) raises: the exception leaves batch_convert and main
BatchMakedirsError ==
    /\ pc = "batch_convert"
    /\ Exists(args.input)
    /\ ~Exists(args.output)
    /\ pc' = "exit"
    /\ exit_status' = 1
    /\ UNCHANGED <<envVars, stdout, convArgs, loopVars, result, batchVars>>

\* an entry that fails the extension or the filter test: continue
BatchSkip ==
    /\ pc = "batch_loop"
    /\ \E filename \in todo :
        /\ ~Matches(filename, args.pattern)
        /\ todo' = todo \ {filename}
    /\ UNCHANGED <<envVars, pc, stdout, exit_status, convArgs, loopVars, result,
                   listing, success_count, failed_count, converted>>

\* an entry that passes: convert_wav_to_pcap(wav_path, pcap_path)
BatchCall ==
    /\ pc = "batch_loop"
    /\ \E filename \in todo :
        /\ Matches(filename, args.pattern)
        /\ todo' = todo \ {filename}
        /\ wav_file' = Join(args.input, filename)
        /\ pcap_file' = Join(args.output, ReplaceExt(filename))
        /\ converted' = Append(converted, filename)
    /\ cfg' = DefaultOptions
    /\ pc' = "convert"
    /\ UNCHANGED <<envVars, stdout, exit_status, loopVars, result,
                   listing, success_count, failed_count>>

BatchCount_AbortsOnFailure ==
    /\ pc = "return"
    /\ BatchMode
    /\ IF result
       THEN success_count' = success_count + 1 /\ pc' = "batch_loop"
            /\ UNCHANGED <<failed_count, exit_status>>
       ELSE failed_count' = failed_count + 1 /\ pc' = "exit" /\ exit_status' = 1
            /\ UNCHANGED success_count
    /\ UNCHANGED <<envVars, stdout, convArgs, loopVars, result, listing, todo, converted>>

\* the call returned: one of the two counters is incremented
BatchCount ==
    /\ pc = "return"
    /\ BatchMode
    /\ IF result
       THEN success_count' = success_count + 1 /\ UNCHANGED failed_count
       ELSE failed_count' = failed_count + 1 /\ UNCHANGED success_count
    /\ pc' = "batch_loop"
    /\ UNCHANGED <<envVars, stdout, exit_status, convArgs, loopVars, result,
                   listing, todo, converted>>

\* the listing is exhausted: the summary is printed, main returns, exit 0
BatchSummary ==
    /\ pc = "batch_loop"
    /\ todo = {}
    /\ Emit(Msg("Conversion complete", success_count, failed_count))
    /\ pc' = "exit"
    /\ exit_status' = 0
    /\ UNCHANGED <<envVars, convArgs, loopVars, result, batchVars>>

----------------------------------------------------------------------------
(* convert_wav_to_pcap *)

\* the except clause: the error is printed and False is returned
Fail(m) ==
    /\ Emit(Msg(m, 0, 0))
    /\ result' = FALSE
    /\ pc' = "return"

\* os.path.exists(wav_file) is false
ConvertNotFound ==
    /\ pc = "convert"
    /\ ~Exists(wav_file)
    /\ Fail("Error: File not found")
    /\ UNCHANGED <<envVars, exit_status, convArgs, loopVars, batchVars>>

\* wave.open raises on a file that is not a readable WAV container
ConvertDecodeError ==
    /\ pc = "convert"
    /\ Exists(wav_file)
    /\ ~(wav_file \in DOMAIN files /\ files[wav_file].kind = "wav")
    /\ Fail("Error processing")
    /\ UNCHANGED <<envVars, exit_status, convArgs, loopVars, batchVars>>

\* wav.readframes(wav.getnframes()): whole frames only. A frame is one sample
\* per channel (samples are one byte wide here), so the bytes of the data
\* chunk beyond the last whole frame are not read.
ReadFrames(wav) ==
    [len |-> (wav.audio.len \div wav.nchannels) * wav.nchannels,
     seed |-> wav.audio.seed]

\* the container opens: the format is printed (channel count and the size
\* of the frames to read), non-mono input is warned about, all frames are
\* read and the loop state is initialised
ConvertRead_RejectsNonMono ==
    /\ pc = "convert"
    /\ wav_file \in DOMAIN files
    /\ files[wav_file].kind = "wav"
    /\ LET wav == files[wav_file]
       IN IF wav.nchannels # 1
          THEN /\ Fail("Error processing")
               /\ UNCHANGED <<envVars, exit_status, convArgs, loopVars, batchVars>>
          ELSE /\ stdout' = stdout \o <<Msg("Processing", wav.nchannels,
                                              ReadFrames(wav).len)>>
               /\ audio_data' = ReadFrames(wav)
               /\ packets' = <<>>
               /\ seq_num' = InitialSeq
               /\ timestamp' = Wide(InitialTimestamp)
               /\ i' = 0
               /\ pc' = "loop"
               /\ UNCHANGED <<envVars, exit_status, convArgs, rtp, result, batchVars>>

ConvertRead ==
    /\ pc = "convert"
    /\ wav_file \in DOMAIN files
    /\ files[wav_file].kind = "wav"
    /\ LET wav == files[wav_file]
       IN /\ stdout' = stdout \o <<Msg("Processing", wav.nchannels, ReadFrames(wav).len)>>
                       \o (IF wav.nchannels # 1
                           THEN <<Msg("Warning: WAV file is not mono", 0, 0)>>
                           ELSE <<>>)
          /\ audio_data' = ReadFrames(wav)
    /\ packets' = <<>>
    /\ seq_num' = InitialSeq
    /\ timestamp' = Wide(InitialTimestamp)
    /\ i' = 0
    /\ pc' = "loop"
    /\ UNCHANGED <<envVars, exit_status, convArgs, rtp, result, batchVars>>

\* range(0, len(audio_data), packet_size) still has an offset to yield
RangeHasNext_DropsPartial ==
    cfg.packet_size > 0 /\ i + cfg.packet_size <= audio_data.len

RangeHasNext == cfg.packet_size > 0 /\ i < audio_data.len

\* range(0, len(audio_data), 0) raises ValueError
LoopRangeError ==
    /\ pc = "loop"
    /\ cfg.packet_size = 0
    /\ Fail("Error processing")
    /\ UNCHANGED <<envVars, exit_status, convArgs, loopVars, batchVars>>

\* one iteration of the loop: chunk, pad, header, frame, append, advance
LoopStep ==
    /\ RangeHasNext
    /\ LET samples_per_packet == cfg.packet_size
           r == RTPPacket(cfg.payload_type, seq_num, timestamp)
           rtp_header == build_header(r)
       IN /\ rtp_header # StructError
          /\ rtp' = r
          /\ LET chunk == PadChunk(Slice(audio_data, i, i + cfg.packet_size),
                                   cfg.packet_size)
             IN packets' = Append(packets, Frame(cfg, rtp_header \o chunk))
          /\ seq_num' = NextSeqNum(seq_num)
          /\ timestamp' = NextTimestamp(timestamp, samples_per_packet)
    /\ i' = i + cfg.packet_size

LoopBody ==
    /\ pc = "loop"
    /\ LoopStep
    /\ UNCHANGED <<envVars, pc, stdout, exit_status, convArgs, audio_data, result,
                   batchVars>>

\* struct.pack raises in build_header: the except clause returns False
LoopPackError ==
    /\ pc = "loop"
    /\ RangeHasNext
    /\ LET r == RTPPacket(cfg.payload_type, seq_num, timestamp)
       IN /\ build_header(r) = StructError
          /\ rtp' = r
    /\ Fail("Error processing")
    /\ UNCHANGED <<envVars, exit_status, convArgs, audio_data, i, seq_num, timestamp,
                   packets, batchVars>>

\* the range is exhausted (or empty, as for a negative step)
LoopEnd ==
    /\ pc = "loop"
    /\ cfg.packet_size # 0
    /\ ~RangeHasNext
    /\ pc' = "write"
    /\ UNCHANGED <<envVars, stdout, exit_status, convArgs, loopVars, result, batchVars>>

\* wrpcap(pcap_file, packets) succeeds
WriteOK ==
    /\ pc = "write"
    /\ pcap_file.dir \in dirs
    /\ files' = WriteFile(files, pcap_file, Capture(packets))
    /\ Emit(Msg("Created", Len(packets), 0))
    /\ result' = TRUE
    /\ pc' = "return"
    /\ UNCHANGED <<args, dirs, exit_status, convArgs, loopVars, batchVars>>

\* wrpcap cannot open the output: nothing is written
WriteOpenError ==
    /\ pc = "write"
    /\ Fail("Error processing")
    /\ UNCHANGED <<envVars, exit_status, convArgs, loopVars, batchVars>>

\* wrpcap opened (and truncated) the output and then raises while writing:
\* the first k frames stay in the file
WriteError ==
    /\ pc = "write"
    /\ pcap_file.dir \in dirs
    /\ \E k \in 0..(IF Len(packets) > 0 THEN Len(packets) - 1 ELSE 0) :
        files' = WriteFile(files, pcap_file, PartialCapture(SubSeq(packets, 1, k)))
    /\ Fail("Error processing")
    /\ UNCHANGED <<args, dirs, exit_status, convArgs, loopVars, batchVars>>

----------------------------------------------------------------------------

Next ==
    \/ MainBatch \/ MainSingle \/ MainMakedirsError \/ SingleExit
    \/ BatchEnter \/ BatchMakedirsError \/ BatchSkip \/ BatchCall
    \/ BatchCount \/ BatchSummary
    \/ ConvertNotFound \/ ConvertDecodeError \/ ConvertRead
    \/ LoopRangeError \/ LoopBody \/ LoopPackError \/ LoopEnd
    \/ WriteOK \/ WriteOpenError \/ WriteError

Spec == Init /\ [][Next]_vars

----------------------------------------------------------------------------
(* Long streams. A run over LongChunks one-byte chunks is entered at the    *)
(* head of the loop when LongStart iterations have been made: the state of  *)
(* main(-i in/a.wav -o a.pcap --packet-size 1) on a mono file of LongChunks *)
(* bytes at that point, all frames built so far included. From there on the *)
(* steps are those of the program. The states of Init are kept as well.     *)

LongSizes == {1}

\* the frame the loop has built for chunk index n (n < MaxSeq, so that the
\* sequence number has not wrapped yet)
FrameBuilt(c, a, n) ==
    LET P == c.packet_size
    IN Frame(c, build_header(RTPPacket(c.payload_type, InitialSeq + n,
                                       Wide(InitialTimestamp + n * P)))
                \o PadChunk(Slice(a, n * P, (n + 1) * P), P))

LongRun ==
    \E P \in LongSizes :
        /\ args = Args(SingleIn, Path("", SingleOutName), <<>>,
                       Options(CliDefaultAddr, DefaultPayloadType, P))
        /\ dirs = {"", "in"}
        /\ files = WriteFile(EmptyFS, SingleIn,
                             WavFile(1, [len |-> LongChunks * P, seed |-> 0]))
        /\ pc = "loop"
        /\ stdout = <<Msg("Processing", 1, LongChunks * P)>>
        /\ exit_status = -1
        /\ wav_file = args.input
        /\ pcap_file = args.output
        /\ cfg = OptionsOf(args)
        /\ audio_data = ReadFrames(files[wav_file])
        /\ i = LongStart * P
        /\ seq_num = InitialSeq + LongStart
        /\ timestamp = Wide(InitialTimestamp + LongStart * P)
        /\ packets = [k \in 1..LongStart |-> FrameBuilt(cfg, audio_data, k - 1)]
        /\ rtp = RTPPacket(cfg.payload_type, InitialSeq + LongStart - 1,
                           Wide(InitialTimestamp + (LongStart - 1) * P))
        /\ result = FALSE
        /\ listing = {}
        /\ todo = {}
        /\ success_count = 0
        /\ failed_count = 0
        /\ converted = <<>>

InitLong == Init \/ LongRun

\* the steps of Next, with an output device that does not fail once the
\* capture has been opened (a write failing after any of 66000 records is
\* left to Spec)
NextLong ==
    \/ MainBatch \/ MainSingle \/ MainMakedirsError \/ SingleExit
    \/ BatchEnter \/ BatchMakedirsError \/ BatchSkip \/ BatchCall
    \/ BatchCount \/ BatchSummary
    \/ ConvertNotFound \/ ConvertDecodeError \/ ConvertRead
    \/ LoopRangeError \/ LoopBody \/ LoopPackError \/ LoopEnd
    \/ WriteOK \/ WriteOpenError

SpecLong == InitLong /\ [][NextLong]_vars

----------------------------------------------------------------------------
(* Largest streams: single-file runs over audio data as long as a WAV       *)
(* container can hold. The size field of the enclosing RIFF chunk is 32     *)
(* bits wide and counts the form type, the format chunk and the header of   *)
(* the data chunk (36 bytes) along with the data, and the wave module reads *)
(* the data through that chunk: wav.readframes(wav.getnframes()) returns at *)
(* most 2^32 - 1 - 36 bytes. In these runs lengths and offsets are [hi, lo] values, and the    *)
(* payload of a frame is held as the description of its bytes (where the    *)
(* chunk starts in the audio data, how many bytes it takes from there, how  *)
(* many silence bytes follow) instead of the bytes themselves.              *)

\* 2^32 - 1 - 36
MaxDataSize == [hi |-> 65535, lo |-> 65499]

WideLess(a, b) == a.hi < b.hi \/ (a.hi = b.hi /\ a.lo < b.lo)

\* a - b as a plain number, for a difference below 2^31
WideSub(a, b) == (a.hi - b.hi) * 65536 + (a.lo - b.lo)

\* w mod n for a small n
WideMod(w, n) == ((w.hi % n) * (65536 % n) + w.lo) % n

\* wav.readframes(wav.getnframes()): whole frames only
WideReadFrames(wav) ==
    LET r == WideMod(wav.audio.len, wav.nchannels)
        l == wav.audio.len
    IN [len |-> IF l.lo >= r THEN [hi |-> l.hi, lo |-> l.lo - r]
                ELSE [hi |-> l.hi - 1, lo |-> l.lo + 65536 - r],
        seed |-> wav.audio.seed]

\* audio_data[lo : lo + packet_size]
WideSlice(a, lo, packet_size) ==
    [seed |-> a.seed, from |-> lo,
     real |-> IF ~WideLess(lo, a.len) THEN 0
              ELSE IF WideLess(a.len, WideAdd(lo, packet_size))
                   THEN WideSub(a.len, lo) ELSE packet_size,
     padding |-> 0]

\* chunk += b"\x7f" * padding_needed
WidePadChunk(chunk, packet_size) ==
    IF chunk.real < packet_size
    THEN LET padding_needed == packet_size - chunk.real
         IN [chunk EXCEPT !.padding = padding_needed]
    ELSE chunk

\* rtp_header + chunk
WideLoad(rtp_header, chunk) == [header |-> rtp_header, chunk |-> chunk]

\* packet size and data size of the input file
WideInputs == {<<Pow2(24), MaxDataSize>>, <<Pow2(30), MaxDataSize>>,
               <<Pow2(30), [hi |-> 32768, lo |-> 1]>>,
               <<2, Wide(3)>>, <<DefaultPacketSize, Wide(DefaultPacketSize + 5)>>}
WidePayloadTypes == {DefaultPayloadType, 256}

InitWide ==
    /\ Locals0
    /\ \E inp \in WideInputs, ch \in Channels, pt \in WidePayloadTypes :
        /\ args = Args(SingleIn, Path("", SingleOutName), <<>>,
                       Options(CliDefaultAddr, pt, inp[1]))
        /\ dirs = {"", "in"}
        /\ files = WriteFile(EmptyFS, SingleIn, WavFile(ch, [len |-> inp[2], seed |-> 0]))

\* the container opens: the format is printed, non-mono input is warned
\* about, all frames are read and the loop state is initialised
WideRead ==
    /\ pc = "convert"
    /\ wav_file \in DOMAIN files
    /\ files[wav_file].kind = "wav"
    /\ LET wav == files[wav_file]
       IN /\ stdout' = stdout \o <<Msg("Processing", wav.nchannels,
                                       WideReadFrames(wav).len)>>
                       \o (IF wav.nchannels # 1
                           THEN <<Msg("Warning: WAV file is not mono", 0, 0)>>
                           ELSE <<>>)
          /\ audio_data' = WideReadFrames(wav)
    /\ packets' = <<>>
    /\ seq_num' = InitialSeq
    /\ timestamp' = Wide(InitialTimestamp)
    /\ i' = Wide(0)
    /\ pc' = "loop"
    /\ UNCHANGED <<envVars, exit_status, convArgs, rtp, result, batchVars>>

\* range(0, len(audio_data), packet_size) still has an offset to yield
WideRangeHasNext == cfg.packet_size > 0 /\ WideLess(i, audio_data.len)

\* one iteration of the loop: chunk, pad, header, frame, append, advance
WideStep_DoubleStamp ==
    /\ pc = "loop"
    /\ WideRangeHasNext
    /\ LET samples_per_packet == cfg.packet_size
           r == RTPPacket(cfg.payload_type, seq_num, timestamp)
           rtp_header == build_header(r)
           chunk == WidePadChunk(WideSlice(audio_data, i, cfg.packet_size),
                                 cfg.packet_size)
       IN /\ rtp_header # StructError
          /\ rtp' = r
          /\ packets' = Append(packets, Frame(cfg, WideLoad(rtp_header, chunk)))
          /\ seq_num' = NextSeqNum(seq_num)
          /\ timestamp' = NextTimestamp(NextTimestamp(timestamp, samples_per_packet),
                                        samples_per_packet)
    /\ i' = WideAdd(i, cfg.packet_size)
    /\ UNCHANGED <<envVars, pc, stdout, exit_status, convArgs, audio_data, result,
                   batchVars>>

WideStep ==
    /\ pc = "loop"
    /\ WideRangeHasNext
    /\ LET samples_per_packet == cfg.packet_size
           r == RTPPacket(cfg.payload_type, seq_num, timestamp)
           rtp_header == build_header(r)
           chunk == WidePadChunk(WideSlice(audio_data, i, cfg.packet_size),
                                 cfg.packet_size)
       IN /\ rtp_header # StructError
          /\ rtp' = r
          /\ packets' = Append(packets, Frame(cfg, WideLoad(rtp_header, chunk)))
          /\ seq_num' = NextSeqNum(seq_num)
          /\ timestamp' = NextTimestamp(timestamp, samples_per_packet)
    /\ i' = WideAdd(i, cfg.packet_size)
    /\ UNCHANGED <<envVars, pc, stdout, exit_status, convArgs, audio_data, result,
                   batchVars>>

\* struct.pack raises in build_header: the except clause returns False
WidePackError ==
    /\ pc = "loop"
    /\ WideRangeHasNext
    /\ LET r == RTPPacket(cfg.payload_type, seq_num, timestamp)
       IN /\ build_header(r) = StructError
          /\ rtp' = r
    /\ Fail("Error processing")
    /\ UNCHANGED <<envVars, exit_status, convArgs, audio_data, i, seq_num, timestamp,
                   packets, batchVars>>

\* the range is exhausted
WideEnd ==
    /\ pc = "loop"
    /\ cfg.packet_size # 0
    /\ ~WideRangeHasNext
    /\ pc' = "write"
    /\ UNCHANGED <<envVars, stdout, exit_status, convArgs, loopVars, result, batchVars>>

NextWide ==
    \/ MainSingle \/ SingleExit
    \/ WideRead \/ WideStep \/ WidePackError \/ WideEnd
    \/ WriteOK \/ WriteOpenError \/ WriteError

SpecWide == InitWide /\ [][NextWide]_vars

----------------------------------------------------------------------------
(* Reading a frame back *)

HeaderOf(frame) == SubSeq(frame.load, 1, 12)
PayloadOf(frame) == SubSeq(frame.load, 13, Len(frame.load))
U16(b, k) == b[k] * 256 + b[k + 1]
U32(b, k) == [hi |-> U16(b, k), lo |-> U16(b, k + 2)]

\* the RTP fixed header (RFC 3550) decoded from 12 bytes
ParseHeader(h) ==
    [version |-> h[1] \div 64, padding |-> (h[1] \div 32) % 2,
     extension |-> (h[1] \div 16) % 2, csrc_count |-> h[1] % 16,
     marker |-> h[2] \div 128, payload_type |-> h[2] % 128,
     seq_num |-> U16(h, 3), timestamp |-> U32(h, 5), ssrc |-> U32(h, 9)]

CeilDiv(a, b) == (a + b - 1) \div b

InConversion == pc \in {"loop", "write", "return"}

----------------------------------------------------------------------------
(* Properties *)

\* C1: for a packet size P > 0 the loop builds one packet per consecutive
\* P-byte chunk (after n packets the next offset is n * P), and when the
\* loop has ended, and after a successful return, exactly ceil(L / P)
\* packets have been built.
C1_PacketCount ==
    (InConversion /\ cfg.packet_size > 0) =>
        /\ (pc \in {"loop", "write"}) => i = Len(packets) * cfg.packet_size
        /\ (pc = "write" \/ (pc = "return" /\ result)) =>
               Len(packets) = CeilDiv(audio_data.len, cfg.packet_size)

C1_Witness ==
    /\ pc = "write"
    /\ audio_data.len = 8005
    /\ cfg.packet_size = 160
    /\ Len(packets) = 51

\* C2: every packet's payload is exactly P bytes; byte j of packet k is the
\* audio byte at offset (k-1)*P + j while that offset is inside the audio
\* and the silence value 0x7F after it; a packet has silence bytes only if
\* it is the last one and L mod P # 0, and then it keeps L mod P audio bytes.
\* (Inside the loop the packet just appended is examined, after the loop
\* all of them.)
C2_Payloads ==
    InConversion =>
        \A k \in (IF pc = "loop" THEN {Len(packets)} \ {0} ELSE 1..Len(packets)) :
            LET P == cfg.packet_size
                L == audio_data.len
                off == (k - 1) * P
                real == IF L - off < P THEN L - off ELSE P
                payload == PayloadOf(packets[k])
            IN /\ Len(payload) = P
               /\ \A j \in 1..P :
                      payload[j] = IF j <= real THEN AudioByte(audio_data, off + j - 1)
                                   ELSE Silence
               /\ (real < P) => (k = CeilDiv(L, P) /\ L % P # 0 /\ real = L % P)

C2_Witness ==
    /\ pc = "write"
    /\ audio_data.len = 8005
    /\ cfg.packet_size = 160
    /\ Len(packets) = 51
    /\ PayloadOf(packets[51])[5] = AudioByte(audio_data, 8004)
    /\ PayloadOf(packets[51])[6] = Silence
    /\ PayloadOf(packets[51])[160] = Silence

\* C3: in every call (a single file, each file of a batch run) the packet of
\* chunk index n carries sequence number (1 + n) mod 65536 in bytes 3..4 of
\* its header, and the counter stays within 0..65535 (after 65535 comes 0).
\* While the loop runs the newest packet is examined, at its end all of them.
C3_SequenceNumbers ==
    /\ seq_num \in 0..65535
    /\ (pc = "loop" /\ cfg.packet_size > 0) =>
           /\ i = Len(packets) * cfg.packet_size
           /\ seq_num = (InitialSeq + Len(packets)) % 65536
           /\ (Len(packets) > 0) =>
                  /\ rtp.seq_num = (InitialSeq + Len(packets) - 1) % 65536
                  /\ U16(HeaderOf(packets[Len(packets)]), 3) = rtp.seq_num
    /\ (pc = "write") =>
           \A k \in 1..Len(packets) :
               U16(HeaderOf(packets[k]), 3) = (InitialSeq + k - 1) % 65536

\* in a stream of LongChunks (66000) one-byte chunks: packet 65535 has been
\* built with 65535, the next one with 0, and the counter stands at 1
C3_Witness ==
    /\ pc = "loop"
    /\ audio_data.len = LongChunks
    /\ Len(packets) = 65536
    /\ U16(HeaderOf(packets[65535]), 3) = 65535
    /\ U16(HeaderOf(packets[65536]), 3) = 0
    /\ rtp.seq_num = 0
    /\ seq_num = 1

\* C4: packet k (counted from 1) carries timestamp (k-1) * P in bytes 5..8 of
\* its header: packet 1 carries 0 and each next packet P more; the running
\* counter equals the number of packets built times P.
C4_Timestamps ==
    InConversion =>
        /\ \A k \in 1..Len(packets) :
               ParseHeader(HeaderOf(packets[k])).timestamp = Wide((k - 1) * cfg.packet_size)
        /\ (pc \in {"loop", "write"}) => timestamp = Wide(Len(packets) * cfg.packet_size)

C4_Witness ==
    /\ pc = "write"
    /\ audio_data.len = 8000
    /\ cfg.packet_size = 160
    /\ Len(packets) = 50
    /\ WideInt(ParseHeader(HeaderOf(packets[50])).timestamp) = 7840
    /\ WideInt(ParseHeader(HeaderOf(packets[2])).timestamp) = 160

\* C5: the 12 header bytes of every emitted packet decode to the field
\* values of the RTPPacket object they were built from (version 2, padding,
\* extension, CSRC count and marker 0, the selected payload type, the
\* sequence number, the timestamp and the SSRC).
C5_HeaderRoundTrip ==
    (pc \in {"loop", "write"} /\ Len(packets) > 0) =>
        ParseHeader(HeaderOf(packets[Len(packets)])) = rtp

\* C6: after a successful conversion the output path holds a capture with as
\* many records as packets were built (one per chunk, the padded one
\* included), record k is the frame of chunk k, and its payload is the
\* header of chunk k followed by the chunk's bytes.
C6_CaptureRecords ==
    (pc = "return" /\ result) =>
        /\ pcap_file \in DOMAIN files
        /\ files[pcap_file].kind = "pcap"
        /\ LET recs == files[pcap_file].records
               P == cfg.packet_size
           IN /\ Len(recs) = Len(packets)
              /\ (P > 0) => Len(recs) = CeilDiv(audio_data.len, P)
              /\ \A k \in 1..Len(recs) :
                     /\ recs[k] = packets[k]
                     /\ recs[k].load =
                            build_header(RTPPacket(cfg.payload_type,
                                                   (InitialSeq + k - 1) % 65536,
                                                   Wide((k - 1) * P)))
                            \o PadChunk(Slice(audio_data, (k - 1) * P, k * P), P)

C6_Witness ==
    /\ pc = "return"
    /\ result
    /\ audio_data.len = 8005
    /\ Len(files[pcap_file].records) = 51
    /\ files[pcap_file].records[51] = packets[51]

\* C7: with a packet size P <= 0 the conversion never gets as far as writing:
\* it returns False, has built no packet and has written no capture.
C7_RejectsNonPositive ==
    (InConversion /\ cfg.packet_size <= 0) =>
        /\ pc # "write"
        /\ packets = <<>>
        /\ (pc = "return") => (~result /\ ~(pcap_file \in DOMAIN files
                                           /\ files[pcap_file] = Capture(packets)))

SeqToSet(q) == {q[k] : k \in DOMAIN q}
MatchingEntries == {n \in listing : Matches(n, args.pattern)}
CallInProgress == pc \in {"convert", "loop", "write", "return"}

\* C8: in batch mode every listed entry that passes the extension and filter
\* tests is handed to the conversion exactly once, every returned call has
\* incremented exactly one of the two counters, a failure leaves the loop
\* running, and at the exit success_count + failed_count is the number of
\* matching entries.
C8_BatchTally ==
    BatchMode =>
        /\ Cardinality(SeqToSet(converted)) = Len(converted)
        /\ SeqToSet(converted) = {n \in listing \ todo : Matches(n, args.pattern)}
        /\ success_count + failed_count =
               Len(converted) - (IF CallInProgress THEN 1 ELSE 0)
        /\ (pc = "exit") =>
               /\ todo = {}
               /\ success_count + failed_count = Cardinality(MatchingEntries)

C8_Witness ==
    /\ BatchMode
    /\ pc = "exit"
    /\ \E n \in listing : files[Path("in", n)].kind = "corrupt"
    /\ success_count = 1
    /\ failed_count = 1
    /\ stdout[Len(stdout)] = Msg("Conversion complete", 1, 1)

\* C9: in batch mode the program ends only after printing the summary, and
\* with exit status 0.
C9_BatchExitsZero ==
    (BatchMode /\ pc = "exit") =>
        /\ exit_status = 0
        /\ Len(stdout) > 0
        /\ stdout[Len(stdout)].msg = "Conversion complete"

InputNotFound == ~Exists(args.input)
DecodeFailed == args.input \in DOMAIN files /\ files[args.input].kind # "wav"
InvalidConfig == args.packet_size <= 0
OutputFailed == ~(args.output \in DOMAIN files /\ files[args.output] = Capture(packets))

\* C10: in single-file mode the exit status is non-zero exactly when the
\* conversion failed: the input was not found, it did not decode, the
\* configuration was invalid, or the output could not be created or written.
C10_SingleExitStatus ==
    (~BatchMode /\ pc = "exit") =>
        ((exit_status # 0) <=> (InputNotFound \/ DecodeFailed \/ InvalidConfig \/ OutputFailed))

\* the name with its last segment (the extension) replaced by ".pcap"
TrailingExtReplaced(filename) ==
    SubSeq(filename, 1, Len(filename) - 1) \o <<PcapExt>>

\* C11: in directory mode the entries handed to the conversion are exactly
\* the listed ones whose name ends in .wav (in any letter case) and contains
\* the filter when one is given, and the output path of a converted entry is
\* its name with the trailing audio extension replaced by .pcap, in the
\* output directory.
C11_DirectoryMode ==
    BatchMode =>
        /\ SeqToSet(converted) =
               {n \in listing \ todo :
                    /\ Len(n) > 0
                    /\ LowerSeg(n[Len(n)]) = ".wav"
                    /\ (args.pattern # <<>>) => Contains(n, args.pattern)}
        /\ CallInProgress =>
               /\ wav_file = Join(args.input, converted[Len(converted)])
               /\ pcap_file = Join(args.output, TrailingExtReplaced(wav_file.name))

\* C12: in single-file and in batch mode every frame carries the addresses
\* and ports of the command line (given or default), byte 2 of its RTP
\* header is the command line's payload type and its payload has the command
\* line's packet size.
C12_FramesCarryOptions ==
    InConversion =>
        \A k \in 1..Len(packets) :
            /\ packets[k].src_ip = args.src_ip
            /\ packets[k].dst_ip = args.dst_ip
            /\ packets[k].sport = args.src_port
            /\ packets[k].dport = args.dst_port
            /\ packets[k].load[2] = args.payload_type
            /\ Len(PayloadOf(packets[k])) = args.packet_size

\* C13: when convert_wav_to_pcap has returned, either it reported success and
\* the output path holds the complete capture, or it reported failure and no
\* partially written file is left at the output path.
C13_AllOrNothing ==
    (pc = "return") =>
        IF result
        THEN pcap_file \in DOMAIN files /\ files[pcap_file] = Capture(packets)
        ELSE ~(pcap_file \in DOMAIN files /\ files[pcap_file].kind = "partial")

\* the output path batch_convert derives for an entry
OutputPathOf(n) == Join(args.output, ReplaceExt(n))

\* C16: after the directory has been listed, no two distinct matched entries
\* derive the same output path and no derived output path is the path of a
\* listed audio file.
C16_DisjointOutputs ==
    (BatchMode /\ pc \notin {"main", "batch_convert"}) =>
        \A n1 \in MatchingEntries :
            /\ \A n2 \in MatchingEntries \ {n1} : OutputPathOf(n1) # OutputPathOf(n2)
            /\ \A n2 \in {n \in listing : HasWavExt(n)} :
                   OutputPathOf(n1) # Join(args.input, n2)

\* the input of the running call is a readable container that is not mono
NonMonoInput ==
    /\ wav_file \in DOMAIN files
    /\ files[wav_file].kind = "wav"
    /\ files[wav_file].nchannels # 1

MonoWarning == Msg("Warning: WAV file is not mono", 0, 0)

\* C14: a call on a readable container with a channel count other than 1
\* is not rejected: its first step prints the format and the warning and
\* enters the loop in the state a mono input with the same frames enters it
\* (all whole frames read, offset 0, sequence number 1, timestamp 0, no
\* frames built), with no result set and no file touched.
C14_NonMonoAccepted ==
    [][(pc = "convert" /\ NonMonoInput) =>
           /\ pc' = "loop"
           /\ audio_data' = [len |-> files[wav_file].audio.len
                                       - (files[wav_file].audio.len
                                          % files[wav_file].nchannels),
                              seed |-> files[wav_file].audio.seed]
           /\ stdout' = stdout \o <<Msg("Processing", files[wav_file].nchannels,
                                        audio_data'.len), MonoWarning>>
           /\ i' = 0
           /\ seq_num' = InitialSeq
           /\ timestamp' = Wide(InitialTimestamp)
           /\ packets' = <<>>
           /\ UNCHANGED <<envVars, exit_status, convArgs, result, batchVars>>]_vars

C14_Witness ==
    /\ pc = "return"
    /\ result
    /\ NonMonoInput
    /\ stdout[Len(stdout) - 1] = MonoWarning
    /\ files[wav_file].audio.len = audio_data.len + 1
    /\ Len(packets) > 0
    /\ files[pcap_file] = Capture(packets)

\* C17: the file system changes only in the write step, reached after every
\* chunk of a valid (positive) packet size has been packetized and framed; a
\* call that leaves the decode or the loop stage by a failure, or that runs
\* with an invalid packet size, changes no file.
C17_WriteLast ==
    [][/\ (files' # files) =>
              /\ pc = "write"
              /\ cfg.packet_size > 0
              /\ Len(packets) = CeilDiv(audio_data.len, cfg.packet_size)
       /\ (pc \in {"convert", "loop"} /\ pc' = "return") =>
              (~result' /\ files' = files)]_vars

\* C15: whenever the loop is about to pack a header the running timestamp
\* is within 0..2^32-1, every RTPPacket built with an in-range payload type
\* packs, bytes 5..8 of its header read back as the unsigned 32-bit value
\* of its timestamp, and that header is the one of the newest frame, for
\* streams up to the largest a container holds.
C15_TimestampUnsigned32 ==
    /\ (pc = "loop" /\ WideRangeHasNext) => Fits32(timestamp)
    /\ (pc \in {"loop", "write"} /\ Len(packets) > 0) =>
           /\ Fits32(rtp.timestamp)
           /\ build_header(rtp) # StructError
           /\ U32(build_header(rtp), 5) = rtp.timestamp
           /\ packets[Len(packets)].load.header = build_header(rtp)

\* the last of the four chunks of a stream of 2^32 - 37 bytes carries
\* 3 * 2^30 (above the signed range) and the counter then reaches 2^32,
\* after the last header
C15_Witness ==
    /\ pc = "write"
    /\ audio_data.len = MaxDataSize
    /\ Len(packets) = 4
    /\ rtp.timestamp = [hi |-> 49152, lo |-> 0]
    /\ U32(packets[4].load.header, 5) = [hi |-> 49152, lo |-> 0]
    /\ packets[4].load.chunk.padding = 37
    /\ timestamp = [hi |-> 65536, lo |-> 0]

====
